---------------------------- MODULE Spec2Model ----------------------------
(***************************************************************************)
(* durationlint (pkg/analyzer/analyzer.go): the analysis pass `run` over   *)
(* one type-annotated syntax tree.  The state is the state of one call of  *)
(* run: the flag, the ast.Inspect recursion, the improperDurationContext   *)
(* stack with its sentinel, and the diagnostics handed to pass.Report.     *)
(***************************************************************************)
EXTENDS Integers, Sequences, FiniteSets, TLC

VARIABLES
    file,                        \* pass.Files[0]: the syntax tree being inspected
    fForbidImproperConversions,  \* the forbid-improper-conversions flag
    agenda,                      \* ast.Inspect: pending callbacks (a node, or Nil for f(nil))
    slice,                       \* stack.slice
    sentinel,                    \* stack.sentinel
    reported,                    \* pass.Report calls, in order
    dropped,                     \* history: deferred diagnostics discarded at a proper pop,
                                 \*   each with the node whose context held it
    visited,                     \* history: ids of the nodes the callback was entered with
    status,                      \* "running", "done" (run returned) or "panic"
    earlier                      \* history: the outcome of the previous run over this file

vars == <<file, fForbidImproperConversions, agenda, slice, sentinel,
          reported, dropped, visited, status, earlier>>

(***************************************************************************)
(* Resolved types, as the strings types.Type.String() and the predicates   *)
(* of the analyzer see them.  NilType is TypesInfo.TypeOf returning nil.   *)
(***************************************************************************)
Duration == "time.Duration"
NilType == "nil"

\* analyzer.go isIntegerType: a *types.Basic with the IsInteger flag
\* (untyped int is such a Basic too).
isIntegerType(typ) == typ \in {"int", "uint8", "untyped int"}

\* analyzer.go isDurationType
isDurationType(typ) ==
    IF typ = NilType THEN FALSE ELSE typ = "time.Duration"

(***************************************************************************)
(* Syntax nodes.  One record shape for every ast.Node; children are in     *)
(* ast.Walk order.  n is len(Lhs) of an AssignStmt and len(Names) of a     *)
(* ValueSpec; hasType is ValueSpec.Type != nil; Decl is Ident.Obj.Decl.    *)
(***************************************************************************)
NotValueSpec == [isValueSpec |-> FALSE, Names |-> <<>>, Type |-> NilType, Values |-> <<>>]

\* An *ast.ValueSpec as hasIntOrUntypedConstDeclaration reads it: the names,
\* TypeOf(Type) (NilType when Type == nil) and TypeOf(Values[i]).
ValueSpecDecl(names, type, values) ==
    [isValueSpec |-> TRUE, Names |-> names, Type |-> type, Values |-> values]

Node(kind, typ, children) ==
    [kind |-> kind, typ |-> typ, op |-> "", Value |-> <<>>, Name |-> "",
     Decl |-> NotValueSpec, n |-> 0, hasType |-> FALSE, children |-> children,
     pos |-> 0, end |-> 0, id |-> 0]

Nil == Node("nil", NilType, <<>>)

BasicLit(value, typ) == [Node("BasicLit", typ, <<>>) EXCEPT !.Value = value]
Ident(name, typ, decl) == [Node("Ident", typ, <<>>) EXCEPT !.Name = name, !.Decl = decl]
SelectorExpr(x, sel, typ) == Node("SelectorExpr", typ, <<x, sel>>)
ParenExpr(x) == Node("ParenExpr", x.typ, <<x>>)
BinaryExpr(op, x, y, typ) == [Node("BinaryExpr", typ, <<x, y>>) EXCEPT !.op = op]
CallExpr(fun, args, typ) == Node("CallExpr", typ, <<fun>> \o args)
KeyValueExpr(key, value) == Node("KeyValueExpr", NilType, <<key, value>>)
CompositeLit(type, elts) == Node("CompositeLit", type.typ, <<type>> \o elts)
AssignStmt(lhs, rhs) == [Node("AssignStmt", NilType, lhs \o rhs) EXCEPT !.n = Len(lhs)]
ExprStmt(x) == Node("ExprStmt", NilType, <<x>>)
ValueSpec(names, type, values) ==
    [Node("ValueSpec", NilType, names \o type \o values)
        EXCEPT !.n = Len(names), !.hasType = (type # <<>>)]
File(decls) == Node("File", NilType, decls)

\* Field accessors in the names of go/ast.
X(node) == node.children[1]
Y(node) == node.children[2]
Fun(call) == call.children[1]
Args(call) == Tail(call.children)
Sel(selector) == selector.children[2]
Key(kv) == kv.children[1]
KVValue(kv) == kv.children[2]
Lhs(assign) == SubSeq(assign.children, 1, assign.n)
Rhs(assign) == SubSeq(assign.children, assign.n + 1, Len(assign.children))
SpecType(spec) == spec.children[spec.n + 1]
SpecValues(spec) ==
    SubSeq(spec.children, spec.n + (IF spec.hasType THEN 2 ELSE 1), Len(spec.children))

(***************************************************************************)
(* Positions.  token.Pos is modelled as a token index: a node's Pos() is   *)
(* the index of its first token (X.Pos() for a binary expression, Fun.Pos()*)
(* for a call, the "(" for a parenthesized expression), End() the index    *)
(* after its last.  id is the node's pre-order index.                      *)
(***************************************************************************)
RECURSIVE Width(_), WidthAll(_), Size(_), SizeAll(_), Place(_, _, _), PlaceAll(_, _, _)

LeadTokens(kind) == IF kind \in {"ParenExpr", "File"} THEN 1 ELSE 0
TrailTokens(kind) == IF kind \in {"ParenExpr", "CallExpr", "CompositeLit"} THEN 1 ELSE 0

WidthAll(s) ==
    IF s = <<>> THEN 0
    ELSE Width(Head(s)) + (IF Len(s) > 1 THEN 1 ELSE 0) + WidthAll(Tail(s))
Width(node) ==
    IF node.children = <<>> THEN 1
    ELSE LeadTokens(node.kind) + WidthAll(node.children) + TrailTokens(node.kind)

SizeAll(s) == IF s = <<>> THEN 0 ELSE Size(Head(s)) + SizeAll(Tail(s))
Size(node) == 1 + SizeAll(node.children)

PlaceAll(s, p, i) ==
    IF s = <<>> THEN <<>>
    ELSE LET h == Place(Head(s), p, i)
         IN  <<h>> \o PlaceAll(Tail(s), h.end + 1, i + Size(Head(s)))
Place(node, p, i) ==
    [node EXCEPT !.pos = p, !.end = p + Width(node), !.id = i,
                 !.children = PlaceAll(node.children, p + LeadTokens(node.kind), i + 1)]

\* All nodes of a tree, the root included.
RECURSIVE Nodes(_), NodesAll(_)
NodesAll(s) == IF s = <<>> THEN {} ELSE Nodes(Head(s)) \cup NodesAll(Tail(s))
Nodes(node) == {node} \cup NodesAll(node.children)

(***************************************************************************)
(* The classifier.                                                         *)
(***************************************************************************)
\* nameIdx without the search: the first name's index, whatever the name.
nameIdxFirst(names, name) == 1

\* The first index i with vSpec.Names[i] = name, or -1 (analyzer.go 322-328).
nameIdx(names, name) ==
    IF \E i \in 1..Len(names) : names[i] = name
    THEN CHOOSE i \in 1..Len(names) :
            names[i] = name /\ \A j \in 1..(i - 1) : names[j] # name
    ELSE -1

\* hasIntOrUntypedConstDeclaration panics: the "logic error" panic, or the
\* index expression vSpec.Values[nameIdx] out of range.
hasIntOrUntypedConstDeclarationPanics(identifier) ==
    LET vSpec == identifier.Decl IN
    /\ vSpec.isValueSpec
    /\ ~(vSpec.Type # NilType /\ ~isIntegerType(vSpec.Type))
    /\ \/ nameIdx(vSpec.Names, identifier.Name) = -1
       \/ nameIdx(vSpec.Names, identifier.Name) > Len(vSpec.Values)

\* hasIntOrUntypedConstDeclaration's result when it returns (FALSE stands
\* for no result where it panics).
hasIntOrUntypedConstDeclaration(identifier) ==
    LET vSpec == identifier.Decl IN
    IF ~vSpec.isValueSpec THEN FALSE
    ELSE IF vSpec.Type # NilType /\ ~isIntegerType(vSpec.Type) THEN FALSE
    ELSE IF hasIntOrUntypedConstDeclarationPanics(identifier) THEN FALSE
    ELSE vSpec.Values[nameIdx(vSpec.Names, identifier.Name)] # "time.Duration"

RECURSIVE usesIntOrUntypedConstants(_), usesIntOrUntypedConstantsPanics(_)

\* Variants of usesIntOrUntypedConstants with the operator rules exchanged:
\* "*" decided as "+" is, or "+" and "-" decided as "*" is.
RECURSIVE usesVariant(_, _)
usesVariant(e, anyOps) ==
    CASE e.kind = "BasicLit" -> e.Value # <<"0">>
      [] e.kind = "BinaryExpr" ->
            CASE e.op \in anyOps -> usesVariant(X(e), anyOps) \/ usesVariant(Y(e), anyOps)
              [] e.op \in {"+", "-", "*"} \ anyOps ->
                    usesVariant(X(e), anyOps) /\ usesVariant(Y(e), anyOps)
              [] OTHER -> FALSE
      [] e.kind = "Ident" -> hasIntOrUntypedConstDeclaration(e)
      [] e.kind = "ParenExpr" -> usesVariant(X(e), anyOps)
      [] OTHER -> FALSE
usesMulAsAdd(e) == usesVariant(e, {"+", "-", "*"})
usesAddAsMul(e) == usesVariant(e, {})

\* usesIntOrUntypedConstants's result when it returns.
usesIntOrUntypedConstants(e) ==
    CASE e.kind = "BasicLit" -> e.Value # <<"0">>
      [] e.kind = "BinaryExpr" ->
            CASE e.op \in {"+", "-"} ->
                    usesIntOrUntypedConstants(X(e)) \/ usesIntOrUntypedConstants(Y(e))
              [] e.op = "*" ->
                    usesIntOrUntypedConstants(X(e)) /\ usesIntOrUntypedConstants(Y(e))
              [] OTHER -> FALSE
      [] e.kind = "Ident" -> hasIntOrUntypedConstDeclaration(e)
      [] e.kind = "ParenExpr" -> usesIntOrUntypedConstants(X(e))
      [] OTHER -> FALSE

\* Whether the evaluation of usesIntOrUntypedConstants(e) panics, in Go's
\* left-to-right short-circuit order of || and &&.
usesIntOrUntypedConstantsPanics(e) ==
    CASE e.kind = "BinaryExpr" ->
            CASE e.op \in {"+", "-"} ->
                    \/ usesIntOrUntypedConstantsPanics(X(e))
                    \/ /\ ~usesIntOrUntypedConstants(X(e))
                       /\ usesIntOrUntypedConstantsPanics(Y(e))
              [] e.op = "*" ->
                    \/ usesIntOrUntypedConstantsPanics(X(e))
                    \/ /\ usesIntOrUntypedConstants(X(e))
                       /\ usesIntOrUntypedConstantsPanics(Y(e))
              [] OTHER -> FALSE
      [] e.kind = "Ident" -> hasIntOrUntypedConstDeclarationPanics(e)
      [] e.kind = "ParenExpr" -> usesIntOrUntypedConstantsPanics(X(e))
      [] OTHER -> FALSE

(***************************************************************************)
(* Diagnostics and the entry-point checks.  A check returns <<>> for nil   *)
(* and <<d>> for a diagnostic d.                                           *)
(***************************************************************************)
MsgAssignment == "untyped constant in time.Duration assignment"
MsgArgument == "untyped constant in time.Duration argument"
MsgConversion ==
    "converting integer via time.Duration() without multiplication by proper duration"

Diagnostic(pos, message) == [Pos |-> pos, Message |-> message]

\* checkArgument without its test of the argument's type.
checkArgumentAnyType(v) ==
    IF ~usesIntOrUntypedConstants(v) THEN <<>>
    ELSE <<Diagnostic(v.pos, MsgArgument)>>

\* analyzer.go checkArgument
checkArgument(v) ==
    IF ~isDurationType(v.typ) THEN <<>>
    ELSE IF ~usesIntOrUntypedConstants(v) THEN <<>>
    ELSE <<Diagnostic(v.pos, MsgArgument)>>

checkArgumentPanics(v) ==
    isDurationType(v.typ) /\ usesIntOrUntypedConstantsPanics(v)

\* checkDurationConversionArgument looking at the argument's type only.
checkDurationConversionArgumentExplicitOnly(arg) ==
    IF ~isIntegerType(arg.typ) THEN <<>>
    ELSE <<Diagnostic(arg.pos, MsgConversion)>>

\* analyzer.go checkDurationConversionArgument
checkDurationConversionArgument(arg) ==
    LET argType == arg.typ
        implicitInt == usesIntOrUntypedConstants(arg)
        explicitInt == isIntegerType(argType)
    IN  IF ~implicitInt /\ ~explicitInt THEN <<>>
        ELSE <<Diagnostic(arg.pos, MsgConversion)>>

checkDurationConversionArgumentPanics(arg) == usesIntOrUntypedConstantsPanics(arg)

\* analyzer.go checkAssignment
checkAssignment(l, r) ==
    LET lType == l.typ IN
    IF lType = NilType \/ lType # "time.Duration" THEN <<>>
    ELSE IF ~usesIntOrUntypedConstants(r) THEN <<>>
    ELSE <<Diagnostic(r.pos, MsgAssignment)>>

checkAssignmentPanics(l, r) ==
    /\ ~(l.typ = NilType \/ l.typ # "time.Duration")
    /\ usesIntOrUntypedConstantsPanics(r)

\* analyzer.go isDurationConversion
isDurationConversion(v) ==
    IF Fun(v).kind # "SelectorExpr" THEN FALSE
    ELSE IF Len(Args(v)) # 1 THEN FALSE
    ELSE Sel(Fun(v)).Name = "Duration"

(***************************************************************************)
(* improperDurationContext and improperDurationContextStack.               *)
(***************************************************************************)
ExprKinds == {"BasicLit", "Ident", "SelectorExpr", "ParenExpr", "BinaryExpr",
              "CallExpr", "KeyValueExpr", "CompositeLit"}

improperDurationContext(node, isMultiplicationExpr, isDurationExpr) ==
    [node |-> node,
     isMultiplicationExpr |-> isMultiplicationExpr,
     isDurationType |-> isDurationExpr,
     isImproperDurationNode |-> FALSE,
     hasProperDurationChild |-> FALSE,
     hasImproperDurationChild |-> FALSE,
     deferredImproperDurationDiagnostics |-> <<>>]

\* The zero value of stack.sentinel (node is the nil ast.Node).
ZeroContext == improperDurationContext(-1, FALSE, FALSE)

\* isImproperDuration without the disjunct for a node that is no multiplication.
isImproperDurationMulOnly(c) ==
    IF ~c.isDurationType THEN FALSE
    ELSE \/ c.isImproperDurationNode
         \/ (c.hasImproperDurationChild /\ ~c.hasProperDurationChild)

isImproperDuration(c) ==
    IF ~c.isDurationType THEN FALSE
    ELSE \/ c.isImproperDurationNode
         \/ (c.hasImproperDurationChild /\ ~c.isMultiplicationExpr)
         \/ (c.hasImproperDurationChild /\ ~c.hasProperDurationChild)

\* isProperDuration without its test of the node's type.
isProperDurationAnyType(c) == ~isImproperDuration(c)

isProperDuration(c) ==
    IF ~c.isDurationType THEN FALSE
    ELSE ~isImproperDuration(c)

\* A stack value: the fields of improperDurationContextStack the methods
\* write, with the pass.Report log and the log of discarded diagnostics.
Stack(sl, sen, rep, drp) ==
    [slice |-> sl, sentinel |-> sen, reported |-> rep, dropped |-> drp]

\* PushCurrent
PushCurrent(s, node) ==
    LET isExpr == node.kind \in ExprKinds
        isMultiplicationExpr ==
            isExpr /\ node.kind = "BinaryExpr" /\ node.op = "*"
        isDurationExpr == isExpr /\ isDurationType(node.typ)
    IN  [s EXCEPT !.slice = Append(s.slice,
            improperDurationContext(node.id, isMultiplicationExpr, isDurationExpr))]

\* s.current()
current(s) == s.slice[Len(s.slice)]

\* s.parent()
parent(s) ==
    IF Len(s.slice) = 1 THEN s.sentinel ELSE s.slice[Len(s.slice) - 1]

\* A write through the pointer s.parent() returned.
WithParent(s, p) ==
    IF Len(s.slice) = 1 THEN [s EXCEPT !.sentinel = p]
    ELSE [s EXCEPT !.slice[Len(s.slice) - 1] = p]

\* The switch of PopCurrent with its second case missing: an improper
\* node's diagnostics always go to the parent.
popCaseAlwaysDefer(proper, multiplication) ==
    IF proper THEN "resolved" ELSE "defer"

\* The switch of PopCurrent with its default case reporting at once.
popCaseNeverDefer(proper, multiplication) ==
    IF proper THEN "resolved" ELSE "report"

\* The switch of PopCurrent with an empty default case.
popCaseForget(proper, multiplication) ==
    CASE proper -> "resolved"
      [] ~multiplication -> "report"
      [] OTHER -> "forget"

\* The switch of PopCurrent deferring what a proper node holds.
popCaseProperDefers(proper, multiplication) ==
    CASE proper -> "defer"
      [] ~multiplication -> "report"
      [] OTHER -> "defer"

\* The switch of PopCurrent with its second and default cases exchanged.
popCaseSwapped(proper, multiplication) ==
    CASE proper -> "resolved"
      [] ~multiplication -> "defer"
      [] OTHER -> "report"

\* The switch of PopCurrent (analyzer.go 119-135): what becomes of the
\* node's deferred diagnostics.
popCase(proper, multiplication) ==
    CASE proper -> "resolved"
      [] ~multiplication -> "report"
      [] OTHER -> "defer"

\* PopCurrent (the stack is non-empty)
PopCurrent(s) ==
    LET cur == current(s)
        isImproper == isImproperDuration(cur)
        isProper == isProperDuration(cur)
        par1 == [parent(s) EXCEPT
                    !.hasImproperDurationChild = @ \/ isImproper,
                    !.hasProperDurationChild = @ \/ isProper]
        deferred == cur.deferredImproperDurationDiagnostics
        case == popCase(isProper, cur.isMultiplicationExpr)
        par2 == IF case = "defer"
                THEN [par1 EXCEPT !.deferredImproperDurationDiagnostics = @ \o deferred]
                ELSE par1
        s1 == WithParent(s, par2)
    IN  [s1 EXCEPT
            !.reported = IF case = "report" THEN @ \o deferred ELSE @,
            !.dropped = IF case = "resolved"
                        THEN @ \o [i \in 1..Len(deferred) |->
                                     [Diagnostic |-> deferred[i], Node |-> cur.node]]
                        ELSE @,
            !.slice = SubSeq(s1.slice, 1, Len(s1.slice) - 1)]

\* ReportImproperDurationNode reporting at once instead of deferring.
ReportImproperDurationNodeAtOnce(s, diagnostic) ==
    [s EXCEPT !.slice[Len(s.slice)].isImproperDurationNode = TRUE,
              !.reported = Append(@, diagnostic)]

\* ReportImproperDurationNode (the stack is non-empty)
ReportImproperDurationNode(s, diagnostic) ==
    LET s1 == [s EXCEPT !.slice[Len(s.slice)].isImproperDurationNode = TRUE]
        par == parent(s1)
    IN  WithParent(s1, [par EXCEPT
            !.deferredImproperDurationDiagnostics = Append(@, diagnostic)])

\* The loop of Finish over the sentinel's diagnostics (range evaluates the
\* slice once), on a non-empty stack.
RECURSIVE FinishLoop(_, _)
FinishLoop(s, diagnostics) ==
    IF diagnostics = <<>> THEN s
    ELSE FinishLoop(ReportImproperDurationNode(s, Head(diagnostics)), Tail(diagnostics))

\* Finish panics: s.current() indexes an empty slice.
FinishPanics(s) ==
    s.sentinel.deferredImproperDurationDiagnostics # <<>> /\ s.slice = <<>>

\* Finish's result when it returns.
FinishStack(s) ==
    [FinishLoop(s, s.sentinel.deferredImproperDurationDiagnostics)
        EXCEPT !.sentinel.deferredImproperDurationDiagnostics = <<>>]

(***************************************************************************)
(* run: the callback of ast.Inspect, one action per branch of its type     *)
(* switch, and the deferred stack.Finish.                                  *)
(***************************************************************************)
TheStack == Stack(slice, sentinel, reported, dropped)

\* The assignment loop stopping after the first pair.
AssignLoopFirstOnly(lhs, rhs, i, acc) ==
    IF lhs = <<>> THEN [reports |-> acc, panics |-> FALSE]
    ELSE IF rhs = <<>> \/ checkAssignmentPanics(lhs[1], rhs[1])
    THEN [reports |-> acc, panics |-> TRUE]
    ELSE [reports |-> acc \o checkAssignment(lhs[1], rhs[1]), panics |-> FALSE]

\* The loop `for i := range v.Lhs { checkAssignment(v.Lhs[i], v.Rhs[i]) }`:
\* the diagnostics reported before the loop ends or panics, and whether it
\* panics (v.Rhs[i] out of range, or the classifier panics).
RECURSIVE AssignLoop(_, _, _, _)
AssignLoop(lhs, rhs, i, acc) ==
    IF i > Len(lhs) THEN [reports |-> acc, panics |-> FALSE]
    ELSE IF i > Len(rhs) \/ checkAssignmentPanics(lhs[i], rhs[i])
    THEN [reports |-> acc, panics |-> TRUE]
    ELSE AssignLoop(lhs, rhs, i + 1, acc \o checkAssignment(lhs[i], rhs[i]))

\* The loop `for _, value := range v.Values { checkAssignment(v.Type, value) }`.
RECURSIVE ValueLoop(_, _, _, _)
ValueLoop(type, values, i, acc) ==
    IF i > Len(values) THEN [reports |-> acc, panics |-> FALSE]
    ELSE IF checkAssignmentPanics(type, values[i])
    THEN [reports |-> acc, panics |-> TRUE]
    ELSE ValueLoop(type, values, i + 1, acc \o checkAssignment(type, values[i]))

\* The loop `for _, arg := range v.Args { checkArgument(arg) }`.
RECURSIVE ArgumentLoop(_, _, _)
ArgumentLoop(args, i, acc) ==
    IF i > Len(args) THEN [reports |-> acc, panics |-> FALSE]
    ELSE IF checkArgumentPanics(args[i])
    THEN [reports |-> acc, panics |-> TRUE]
    ELSE ArgumentLoop(args, i + 1, acc \o checkArgument(args[i]))

\* ast.Walk after the callback returned for `node`: with true the children
\* and then f(nil) are due, with false nothing of this node is.
Descend(node, descend) ==
    IF descend THEN node.children \o <<Nil>> \o Tail(agenda) ELSE Tail(agenda)

\* What the callback leaves behind: the stack s, whether it panicked, and
\* its return value.
Callback(node, s, panics, descend) ==
    /\ slice' = s.slice
    /\ sentinel' = s.sentinel
    /\ reported' = s.reported
    /\ dropped' = s.dropped
    /\ visited' = Append(visited, node.id)
    /\ status' = IF panics THEN "panicking" ELSE "running"
    /\ agenda' = IF panics THEN agenda ELSE Descend(node, descend)
    /\ UNCHANGED <<file, fForbidImproperConversions, earlier>>

Entering(kinds) ==
    /\ status = "running"
    /\ agenda # <<>>
    /\ Head(agenda).kind \in kinds

\* case *ast.KeyValueExpr
VisitKeyValueExpr ==
    /\ Entering({"KeyValueExpr"})
    /\ LET v == Head(agenda)
           s == PushCurrent(TheStack, v)
           panics == checkAssignmentPanics(Key(v), KVValue(v))
           diag == IF panics THEN <<>> ELSE checkAssignment(Key(v), KVValue(v))
       IN  Callback(v, [s EXCEPT !.reported = @ \o diag], panics, TRUE)

\* case *ast.AssignStmt
VisitAssignStmt ==
    /\ Entering({"AssignStmt"})
    /\ LET v == Head(agenda)
           s == PushCurrent(TheStack, v)
           loop == AssignLoop(Lhs(v), Rhs(v), 1, <<>>)
       IN  Callback(v, [s EXCEPT !.reported = @ \o loop.reports], loop.panics, TRUE)

\* case *ast.ValueSpec
VisitValueSpec ==
    /\ Entering({"ValueSpec"})
    /\ LET v == Head(agenda)
           s == PushCurrent(TheStack, v)
           loop == IF ~v.hasType THEN [reports |-> <<>>, panics |-> FALSE]
                   ELSE ValueLoop(SpecType(v), SpecValues(v), 1, <<>>)
       IN  Callback(v, [s EXCEPT !.reported = @ \o loop.reports], loop.panics, TRUE)

\* The conversion branch returning true whatever the flag.
conversionResultTrue(forbidImproperConversions) == TRUE

\* What the callback returns for a recognized conversion (analyzer.go
\* 219-227): false with the flag off, true after the strict check.
conversionResult(forbidImproperConversions) ==
    IF ~forbidImproperConversions THEN FALSE ELSE TRUE

\* case *ast.CallExpr
VisitCallExpr ==
    /\ Entering({"CallExpr"})
    /\ LET v == Head(agenda)
           s == PushCurrent(TheStack, v)
       IN  IF isDurationConversion(v)
           THEN IF ~fForbidImproperConversions
                THEN Callback(v, s, FALSE, conversionResult(fForbidImproperConversions))
                ELSE LET panics == checkDurationConversionArgumentPanics(Args(v)[1])
                         diag == IF panics THEN <<>>
                                 ELSE checkDurationConversionArgument(Args(v)[1])
                     IN  Callback(v,
                                  IF diag # <<>>
                                  THEN ReportImproperDurationNode(s, diag[1])
                                  ELSE s,
                                  panics, conversionResult(fForbidImproperConversions))
           ELSE LET loop == ArgumentLoop(Args(v), 1, <<>>)
                IN  Callback(v, [s EXCEPT !.reported = @ \o loop.reports],
                             loop.panics, TRUE)

\* default, for a node that is not nil
VisitDefault ==
    /\ Entering({"File", "ExprStmt", "CompositeLit", "BinaryExpr", "ParenExpr",
                 "SelectorExpr", "Ident", "BasicLit"})
    /\ Callback(Head(agenda), PushCurrent(TheStack, Head(agenda)), FALSE, TRUE)

\* node == nil: the traversal leaves a node; defer stack.PopCurrent()
VisitNil ==
    /\ Entering({"nil"})
    /\ LET s == PopCurrent(TheStack)
       IN  /\ slice' = s.slice
           /\ sentinel' = s.sentinel
           /\ reported' = s.reported
           /\ dropped' = s.dropped
    /\ agenda' = Tail(agenda)
    /\ UNCHANGED <<file, fForbidImproperConversions, visited, status, earlier>>

\* defer stack.Finish(): when run returns, and when a panic unwinds it.
Finish ==
    /\ IF status = "running" THEN agenda = <<>> ELSE status = "panicking"
    /\ IF FinishPanics(TheStack)
       THEN /\ status' = "panic"
            /\ UNCHANGED <<slice, sentinel>>
       ELSE /\ slice' = FinishStack(TheStack).slice
            /\ sentinel' = FinishStack(TheStack).sentinel
            /\ status' = IF status = "panicking" THEN "panic" ELSE "done"
    /\ UNCHANGED <<file, fForbidImproperConversions, agenda, reported, dropped, visited,
                   earlier>>

\* The stack of the previous run taken for the new one.
ReusedStack(previous) == previous

\* stack := improperDurationContextStack{pass: pass}: every run starts from
\* an empty stack on a pass that has reported nothing.
NewStack(previous) == Stack(<<>>, ZeroContext, <<>>, <<>>)

\* The driver runs the analyzer once more over the same file, with the flag
\* as the command line of that run (or resetFlags) sets it.
Rerun ==
    /\ status \in {"done", "panic"}
    /\ earlier = <<>>
    /\ earlier' = <<[flag |-> fForbidImproperConversions, reported |-> reported,
                     status |-> status]>>
    /\ fForbidImproperConversions' \in BOOLEAN
    /\ LET s == NewStack(TheStack)
       IN  /\ slice' = s.slice
           /\ sentinel' = s.sentinel
           /\ reported' = s.reported
           /\ dropped' = s.dropped
    /\ agenda' = <<file>>
    /\ visited' = <<>>
    /\ status' = "running"
    /\ UNCHANGED file

(***************************************************************************)
(* The inputs: type-checked files, built from the constructs of the        *)
(* repository's fixtures (testdata/src/p1, forbid_improper_conversion).    *)
(* A referenced declaration is carried by the identifier (Obj.Decl).       *)
(***************************************************************************)
MaxDepth == 2   \* nesting depth of the generated arithmetic

Lit10 == <<"1", "0">>
Lit0 == <<"0">>
LitHex0 == <<"0", "x", "0">>
LitTexts == {Lit10, Lit0, LitHex0}

\* An untyped constant takes the type of its context.
DurLit(text) == BasicLit(text, Duration)

\* const untypedConst = 30
untypedConst ==
    Ident("untypedConst", Duration,
          ValueSpecDecl(<<"untypedConst">>, NilType, <<"untyped int">>))
\* const typedConst time.Duration = time.Second
typedConst ==
    Ident("typedConst", Duration, ValueSpecDecl(<<"typedConst">>, Duration, <<Duration>>))
\* const typedConstImplicit = time.Second
typedConstImplicit ==
    Ident("typedConstImplicit", Duration,
          ValueSpecDecl(<<"typedConstImplicit">>, NilType, <<Duration>>))
\* const ignored1, typedConst2 = 10, time.Duration(2)
ignored1 ==
    Ident("ignored1", Duration,
          ValueSpecDecl(<<"ignored1", "typedConst2">>, NilType, <<"untyped int", Duration>>))
typedConst2 ==
    Ident("typedConst2", Duration,
          ValueSpecDecl(<<"ignored1", "typedConst2">>, NilType, <<"untyped int", Duration>>))
\* const intTypedConst int = 10
intTypedConst ==
    Ident("intTypedConst", "int", ValueSpecDecl(<<"intTypedConst">>, "int", <<"int">>))
\* const ( first = time.Second; repeated ): a ValueSpec with neither type nor value
repeated ==
    Ident("repeated", Duration, ValueSpecDecl(<<"repeated">>, NilType, <<>>))
\* var counter int
counter ==
    Ident("counter", "int", ValueSpecDecl(<<"counter">>, "int", <<>>))
\* d := time.Second and i := 5: declared by an *ast.AssignStmt
localDuration == Ident("d", Duration, NotValueSpec)
localInt == Ident("i", "int", NotValueSpec)
\* var a time.Duration
targetA == Ident("a", Duration, ValueSpecDecl(<<"a">>, Duration, <<>>))
\* var m int
targetM == Ident("m", "int", ValueSpecDecl(<<"m">>, "int", <<>>))
\* var b time.Duration
targetB == Ident("b", Duration, ValueSpecDecl(<<"b">>, Duration, <<>>))
blank == Ident("_", NilType, NotValueSpec)

pkg(name) == Ident(name, "invalid type", NotValueSpec)
\* time.Second
timeSecond == SelectorExpr(pkg("time"), Ident("Second", Duration, NotValueSpec), Duration)
\* the type expression time.Duration
timeDuration == SelectorExpr(pkg("time"), Ident("Duration", Duration, NotValueSpec), Duration)
\* time.Duration(arg)
Conversion(arg) == CallExpr(timeDuration, <<arg>>, Duration)
\* model.Duration(arg): another package's type of the same name
OtherConversion(arg) ==
    CallExpr(SelectorExpr(pkg("model"), Ident("Duration", "model.Duration", NotValueSpec),
                          "model.Duration"),
             <<arg>>, "model.Duration")
\* returnsInteger(), returnsDuration(5), d.Truncate(arg)
returnsInteger == CallExpr(Ident("returnsInteger", "func() uint8", NotValueSpec), <<>>, "uint8")
returnsDuration ==
    CallExpr(Ident("returnsDuration", "func(int) time.Duration", NotValueSpec),
             <<BasicLit(<<"5">>, "int")>>, Duration)
Truncate(arg) ==
    CallExpr(SelectorExpr(localDuration,
                          Ident("Truncate", "func(time.Duration) time.Duration", NotValueSpec),
                          "func(time.Duration) time.Duration"),
             <<arg>>, Duration)

\* acceptsBoth(x, y), of type func(int, time.Duration)
acceptsBoth(x, y) ==
    CallExpr(Ident("acceptsBoth", "func(int, time.Duration)", NotValueSpec), <<x, y>>, "()")
\* addDurations(x, y), of type func(time.Duration, time.Duration) time.Duration
addDurations(x, y) ==
    CallExpr(Ident("addDurations", "func(time.Duration, time.Duration) time.Duration",
                   NotValueSpec),
             <<x, y>>, Duration)
\* time.ParseDuration(s), of type (time.Duration, error)
parseDuration ==
    CallExpr(SelectorExpr(pkg("time"),
                          Ident("ParseDuration", "func(string) (time.Duration, error)",
                                NotValueSpec),
                          "func(string) (time.Duration, error)"),
             <<Ident("s", "string", NotValueSpec)>>, "(time.Duration, error)")

\* Expressions usable where a time.Duration is expected.
WideAtoms ==
    {DurLit(t) : t \in LitTexts}
    \cup {timeSecond, untypedConst, typedConst, typedConstImplicit, ignored1,
          typedConst2, repeated, localDuration, returnsDuration}
    \cup {Conversion(arg) : arg \in {DurLit(Lit10), DurLit(Lit0), untypedConst,
                                     intTypedConst, counter, localInt, returnsInteger,
                                     typedConst, OtherConversion(BasicLit(Lit10, "model.Duration")),
                                     Conversion(DurLit(Lit10))}}
    \cup {Truncate(arg) : arg \in {DurLit(Lit10), timeSecond, Conversion(intTypedConst)}}

MidAtoms ==
    {DurLit(Lit10), DurLit(Lit0), timeSecond, untypedConst, typedConst2, repeated,
     Conversion(DurLit(Lit10)), Conversion(typedConst)}

WideExprs ==
    WideAtoms
    \cup {BinaryExpr(op, x, y, Duration) :
            op \in {"+", "-", "*", "/"}, x \in MidAtoms, y \in MidAtoms}
    \cup {ParenExpr(e) : e \in {DurLit(Lit10), timeSecond, Conversion(DurLit(Lit10))}}

CoreAtoms == {DurLit(Lit10), timeSecond, Conversion(DurLit(Lit10))}

\* go/parser: token.Token.Precedence of the operators modelled.
Precedence(op) == IF op \in {"*", "/"} THEN 5 ELSE 4

\* The operand as the parser can have produced it under operator op: a
\* binary operand that binds less tightly (or, on the right, as tightly)
\* only occurs parenthesized.
LeftOperand(op, x) ==
    IF x.kind = "BinaryExpr" /\ Precedence(x.op) < Precedence(op) THEN ParenExpr(x) ELSE x
RightOperand(op, y) ==
    IF y.kind = "BinaryExpr" /\ Precedence(y.op) <= Precedence(op) THEN ParenExpr(y) ELSE y

RECURSIVE DeepExprs(_)
DeepExprs(d) ==
    IF d = 0 THEN CoreAtoms
    ELSE LET prev == DeepExprs(d - 1)
         IN  prev
             \cup {BinaryExpr(op, LeftOperand(op, x), y, Duration) :
                     op \in {"+", "*"}, x \in prev, y \in CoreAtoms}
             \cup {BinaryExpr(op, x, RightOperand(op, y), Duration) :
                     op \in {"+", "*"}, x \in CoreAtoms, y \in prev}

\* Statements around a duration expression e.
\* a = e
Assign(e) == AssignStmt(<<targetA>>, <<e>>)
\* _ = TestStruct{DurationField: e}
FieldInit(e) ==
    AssignStmt(<<blank>>,
               <<CompositeLit(Ident("TestStruct", "p1.TestStruct", NotValueSpec),
                              <<KeyValueExpr(Ident("DurationField", Duration, NotValueSpec), e)>>)>>)
\* var c time.Duration = e
TypedSpec(e) == ValueSpec(<<Ident("c", Duration, NotValueSpec)>>, <<timeDuration>>, <<e>>)
\* const c = e
UntypedSpec(e) == ValueSpec(<<Ident("c", Duration, NotValueSpec)>>, <<>>, <<e>>)
\* time.Sleep(e)
Sleep(e) ==
    ExprStmt(CallExpr(SelectorExpr(pkg("time"),
                                   Ident("Sleep", "func(time.Duration)", NotValueSpec),
                                   "func(time.Duration)"),
                      <<e>>, "()"))
\* _ = e
Discard(e) == AssignStmt(<<blank>>, <<e>>)

Statements ==
    {Assign(e) : e \in WideExprs \cup DeepExprs(MaxDepth)}
    \cup {Assign(Conversion(e)) : e \in DeepExprs(MaxDepth - 1) \ CoreAtoms}
    \cup {Sleep(e) : e \in WideExprs}
    \cup {FieldInit(e) : e \in WideAtoms}
    \cup {TypedSpec(e) : e \in WideAtoms}
    \cup {UntypedSpec(e) : e \in {timeSecond, Conversion(DurLit(Lit10))}}
    \cup {Discard(e) : e \in {timeSecond, Conversion(DurLit(Lit10)),
                              OtherConversion(BasicLit(Lit10, "model.Duration"))}}
    \cup {ExprStmt(acceptsBoth(x, y)) :
            x \in {BasicLit(Lit10, "int"), intTypedConst},
            y \in {DurLit(Lit10), DurLit(Lit0), timeSecond, untypedConst, repeated}}
    \* a, m = x, y  and  var c, e time.Duration = x, y
    \cup {AssignStmt(<<targetA, targetM>>, <<x, BasicLit(Lit10, "int")>>) :
            x \in {DurLit(Lit10), timeSecond}}
    \cup {AssignStmt(<<targetM, targetA>>, <<BasicLit(Lit10, "int"), x>>) :
            x \in {DurLit(Lit10), timeSecond}}
    \* a, b = x, y
    \cup {AssignStmt(<<targetA, targetB>>, <<x, y>>) :
            x \in {DurLit(Lit10), timeSecond, untypedConst, Conversion(DurLit(Lit10))},
            y \in {DurLit(Lit10), timeSecond, untypedConst}}
    \* addDurations(d.Truncate(10), 10)
    \cup {ExprStmt(addDurations(Truncate(DurLit(Lit10)), DurLit(Lit10)))}
    \cup {ValueSpec(<<Ident("c", Duration, NotValueSpec), Ident("e", Duration, NotValueSpec)>>,
                    <<timeDuration>>, <<x, y>>) :
            x \in {DurLit(Lit10), timeSecond}, y \in {DurLit(Lit10), timeSecond}}
    \* a = (time.Duration(10)) * time.Second  and  a = time.Second * (time.Duration(10))
    \cup {Assign(BinaryExpr("*", ParenExpr(Conversion(DurLit(Lit10))), timeSecond, Duration)),
          Assign(BinaryExpr("*", timeSecond, ParenExpr(Conversion(DurLit(Lit10))), Duration))}
    \* a, err = time.ParseDuration(s)
    \cup {AssignStmt(<<targetA, Ident("err", "error", NotValueSpec)>>, <<parseDuration>>)}

\* Files of one statement, and of a conversion followed by a flagged statement.
Files ==
    {Place(File(<<stmt>>), 0, 0) : stmt \in Statements}
    \cup {Place(File(<<first, second>>), 0, 0) :
            first \in {Discard(Conversion(counter)), Discard(Conversion(DurLit(Lit10)))},
            second \in {Assign(DurLit(Lit10)), Sleep(untypedConst)}}

Init ==
    /\ file \in Files
    /\ fForbidImproperConversions \in BOOLEAN
    /\ agenda = <<file>>
    /\ slice = <<>>
    /\ sentinel = ZeroContext
    /\ reported = <<>>
    /\ dropped = <<>>
    /\ visited = <<>>
    /\ status = "running"
    /\ earlier = <<>>

Next ==
    \/ VisitKeyValueExpr
    \/ VisitAssignStmt
    \/ VisitValueSpec
    \/ VisitCallExpr
    \/ VisitDefault
    \/ VisitNil
    \/ Finish
    \/ Rerun

Spec == Init /\ [][Next]_vars

(***************************************************************************)
(* Vocabulary of the properties.                                           *)
(***************************************************************************)
Occurrences(diagnostic) ==
    Cardinality({i \in 1..Len(reported) : reported[i] = diagnostic})
Flagged(pos, message) == Occurrences(Diagnostic(pos, message)) > 0
Entered(node) == \E i \in 1..Len(visited) : visited[i] = node.id
Panicked == status \in {"panicking", "panic"}
\* The callback entered with `node` has returned.
Completed(node) ==
    Entered(node) /\ ~(Panicked /\ visited[Len(visited)] = node.id)

Min(a, b) == IF a < b THEN a ELSE b

\* The assignment-style checks of a file: the node whose callback checks,
\* the target and the value.
AssignmentChecks ==
    {[at |-> v, target |-> Lhs(v)[i], value |-> Rhs(v)[i]] :
        <<v, i>> \in {vi \in Nodes(file) \X (1..3) :
                        /\ vi[1].kind = "AssignStmt"
                        /\ vi[2] <= Min(Len(Lhs(vi[1])), Len(Rhs(vi[1])))}}
    \cup {[at |-> v, target |-> Key(v), value |-> KVValue(v)] :
            v \in {w \in Nodes(file) : w.kind = "KeyValueExpr"}}
    \cup {[at |-> v, target |-> SpecType(v), value |-> SpecValues(v)[i]] :
            <<v, i>> \in {vi \in Nodes(file) \X (1..3) :
                            /\ vi[1].kind = "ValueSpec" /\ vi[1].hasType
                            /\ vi[2] <= Len(SpecValues(vi[1]))}}

\* The argument checks of a file: a call that is no recognized conversion,
\* and one of its arguments.
ArgumentChecks ==
    {[at |-> v, value |-> Args(v)[i]] :
        <<v, i>> \in {vi \in Nodes(file) \X (1..3) :
                        /\ vi[1].kind = "CallExpr" /\ ~isDurationConversion(vi[1])
                        /\ vi[2] <= Len(Args(vi[1]))}}

\* The value of a Go integer literal from its spelling: decimal, 0x hex,
\* or octal with a leading 0.
Digit(c) ==
    CASE c = "0" -> 0 [] c = "1" -> 1 [] c = "2" -> 2 [] c = "3" -> 3 [] c = "4" -> 4
      [] c = "5" -> 5 [] c = "6" -> 6 [] c = "7" -> 7 [] c = "8" -> 8 [] c = "9" -> 9
RECURSIVE DigitsValue(_, _, _)
DigitsValue(digits, base, acc) ==
    IF digits = <<>> THEN acc
    ELSE DigitsValue(Tail(digits), base, acc * base + Digit(Head(digits)))
LitValue(text) ==
    IF Len(text) > 2 /\ text[1] = "0" /\ text[2] = "x"
    THEN DigitsValue(SubSeq(text, 3, Len(text)), 16, 0)
    ELSE IF Len(text) > 1 /\ text[1] = "0" THEN DigitsValue(Tail(text), 8, 0)
    ELSE DigitsValue(text, 10, 0)

\* The initializer an identifier's declaration gives it: the type of the
\* value at the position of the identifier's own name, NilType if none.
OwnInitializer(ident) ==
    LET d == ident.Decl
        at == {i \in 1..Len(d.Names) : d.Names[i] = ident.Name}
    IN  IF \E i \in at : i <= Len(d.Values)
        THEN d.Values[CHOOSE i \in at : i <= Len(d.Values)]
        ELSE NilType

UntypedDeclared(e) == e.kind = "Ident" /\ e.Decl.isValueSpec /\ e.Decl.Type = NilType

\* A unit-less value: a literal that is not zero, or a constant declared
\* without a type from a value that is no duration.
UnitlessValue(e) ==
    \/ e.kind = "BasicLit" /\ LitValue(e.Value) # 0
    \/ UntypedDeclared(e) /\ OwnInitializer(e) \notin {NilType, Duration}

\* A proper duration value: a duration that is a selector (time.Second), a
\* call result, a variable, or a constant declared with the duration type or
\* from a duration.
ProperValue(e) ==
    /\ e.typ = Duration
    /\ \/ e.kind \in {"SelectorExpr", "CallExpr"}
       \/ e.kind = "Ident" /\ ~e.Decl.isValueSpec
       \/ e.kind = "Ident" /\ e.Decl.isValueSpec /\ e.Decl.Type = Duration
       \/ UntypedDeclared(e) /\ OwnInitializer(e) = Duration

(***************************************************************************)
(* C1.  Every assignment-style check (assignment, key-value field          *)
(* initialization, typed declaration initializer) with a duration-typed    *)
(* target and a numeric literal as value flags the value with the          *)
(* assignment diagnostic, at its position, iff the literal's value is not  *)
(* zero.                                                                   *)
(***************************************************************************)
C1_LiteralFlaggedIffNonZero ==
    \A c \in AssignmentChecks :
        (Completed(c.at) /\ c.target.typ = Duration /\ c.value.kind = "BasicLit")
            => (Flagged(c.value.pos, MsgAssignment) <=> LitValue(c.value.Value) # 0)

(***************************************************************************)
(* C2.  A product of a literal and a proper duration value, in either      *)
(* order and at any nesting depth of multiplications by literals and of    *)
(* parentheses, is not flagged when it is assigned to a duration target or *)
(* passed as a duration argument.                                          *)
(***************************************************************************)
RECURSIVE ScaledProper(_)
\* P, (M), literal * M, M * literal
ScaledProper(e) ==
    \/ ProperValue(e)
    \/ e.kind = "ParenExpr" /\ ScaledProper(X(e))
    \/ /\ e.kind = "BinaryExpr" /\ e.op = "*"
       /\ \/ X(e).kind = "BasicLit" /\ ScaledProper(Y(e))
          \/ Y(e).kind = "BasicLit" /\ ScaledProper(X(e))

LiteralTimesProper(e) == e.kind = "BinaryExpr" /\ e.op = "*" /\ ScaledProper(e)

C2_LiteralTimesProperNotFlagged ==
    /\ \A c \in AssignmentChecks :
          (c.target.typ = Duration /\ LiteralTimesProper(c.value))
              => ~Flagged(c.value.pos, MsgAssignment)
    /\ \A c \in ArgumentChecks :
          (c.value.typ = Duration /\ LiteralTimesProper(c.value))
              => ~Flagged(c.value.pos, MsgArgument)

C2_Witness ==
    /\ status = "done"
    /\ \E c \in AssignmentChecks :
          /\ c.target.typ = Duration /\ LiteralTimesProper(c.value)
          /\ X(c.value).kind = "BinaryExpr" /\ Y(c.value).kind = "BasicLit"
    /\ reported = <<>>

(***************************************************************************)
(* C3.  A sum or difference assigned to a duration target is flagged when  *)
(* both operands are unit-less, is not flagged when both are proper        *)
(* durations, and is flagged when one operand is unit-less and the other a *)
(* proper duration, in either order.                                       *)
(***************************************************************************)
Sums ==
    {c \in AssignmentChecks :
        /\ c.target.typ = Duration
        /\ c.value.kind = "BinaryExpr" /\ c.value.op \in {"+", "-"}}

C3_SumFlaggedIfEitherUnitless ==
    \A c \in Sums :
        LET x == X(c.value)
            y == Y(c.value)
        IN  Completed(c.at) =>
              /\ (UnitlessValue(x) /\ UnitlessValue(y)) => Flagged(c.value.pos, MsgAssignment)
              /\ (ProperValue(x) /\ ProperValue(y)) => ~Flagged(c.value.pos, MsgAssignment)
              /\ (UnitlessValue(x) /\ ProperValue(y)) => Flagged(c.value.pos, MsgAssignment)
              /\ (ProperValue(x) /\ UnitlessValue(y)) => Flagged(c.value.pos, MsgAssignment)

C3_Witness ==
    /\ status = "done"
    /\ \E c \in Sums :
          /\ ProperValue(X(c.value)) /\ UnitlessValue(Y(c.value))
          /\ reported = <<Diagnostic(c.value.pos, MsgAssignment)>>

(***************************************************************************)
(* C4.  A reference, in a duration context (the value of an assignment-    *)
(* style check with a duration target, or a duration argument), to an      *)
(* identifier declared without a type is flagged iff the initializer at    *)
(* the identifier's own position in its declaration is not of the duration *)
(* type.                                                                   *)
(***************************************************************************)
Initialized(e) == UntypedDeclared(e) /\ OwnInitializer(e) # NilType

C4_UntypedDeclarationByOwnInitializer ==
    /\ \A c \in AssignmentChecks :
          (Completed(c.at) /\ c.target.typ = Duration /\ Initialized(c.value))
              => (Flagged(c.value.pos, MsgAssignment) <=> OwnInitializer(c.value) # Duration)
    /\ \A c \in ArgumentChecks :
          (Completed(c.at) /\ c.value.typ = Duration /\ Initialized(c.value))
              => (Flagged(c.value.pos, MsgArgument) <=> OwnInitializer(c.value) # Duration)

\* a = typedConst2, of const ignored1, typedConst2 = 10, time.Duration(2)
C4_Witness ==
    /\ status = "done"
    /\ \E c \in AssignmentChecks :
          /\ c.target.typ = Duration /\ Initialized(c.value)
          /\ Len(c.value.Decl.Names) = 2 /\ c.value.Decl.Names[2] = c.value.Name
          /\ OwnInitializer(c.value) = Duration
    /\ reported = <<>>

(***************************************************************************)
(* C5.  For every call that is no recognized conversion, each argument is  *)
(* flagged with the argument diagnostic at its position iff its type is    *)
(* the duration type and it is classified unit-less.                       *)
(***************************************************************************)
C5_ArgumentFlaggedIffUnitlessDuration ==
    \A c \in ArgumentChecks :
        Completed(c.at) =>
            (Flagged(c.value.pos, MsgArgument)
                <=> (c.value.typ = Duration /\ usesIntOrUntypedConstants(c.value)))

\* acceptsBoth(10, 10): the int argument is not flagged, the duration one is
C5_Witness ==
    /\ status = "done"
    /\ \E c \in ArgumentChecks :
          /\ Len(Args(c.at)) = 2
          /\ Args(c.at)[1].typ = "int" /\ usesIntOrUntypedConstants(Args(c.at)[1])
          /\ reported = <<Diagnostic(Args(c.at)[2].pos, MsgArgument)>>

(***************************************************************************)
(* Vocabulary of the strict-mode properties.                               *)
(***************************************************************************)
Ancestors(node) == {a \in Nodes(file) : a # node /\ node \in Nodes(a)}
Children(node) == {node.children[i] : i \in 1..Len(node.children)}
IsParent(p, node) == p \in Ancestors(node) /\ node \in Children(p)
Multiplication(node) == node.kind = "BinaryExpr" /\ node.op = "*"

\* The recognized conversion calls of the file, and those with a bare
\* integer as argument: one that is integer-typed or classified unit-less.
Conversions == {c \in Nodes(file) : c.kind = "CallExpr" /\ isDurationConversion(c)}
Argument(c) == Args(c)[1]
BareInteger(arg) == isIntegerType(arg.typ) \/ usesIntOrUntypedConstants(arg)
BareConversions ==
    {c \in Conversions :
        BareInteger(Argument(c)) /\ ~usesIntOrUntypedConstantsPanics(Argument(c))}
ConversionDiagnostic(c) == Diagnostic(Argument(c).pos, MsgConversion)

\* The outcome of a node in strict mode, read off the tree: improper when it
\* is a duration and is a bare conversion, or has an improper child and is
\* no multiplication, or has an improper child and no proper one; proper
\* when it is a duration and not improper.
RECURSIVE ImproperTree(_)
ProperTree(e) == e.typ = Duration /\ e.kind \in ExprKinds /\ ~ImproperTree(e)
ImproperTree(e) ==
    /\ e.typ = Duration /\ e.kind \in ExprKinds
    /\ \/ e \in BareConversions
       \/ (\E k \in Children(e) : ImproperTree(k)) /\ ~Multiplication(e)
       \/ /\ \E k \in Children(e) : ImproperTree(k)
          /\ ~\E k \in Children(e) : ProperTree(k)

\* The traversal has left the node: its context was pushed and popped.
Exited(node) == Entered(node) /\ \A i \in 1..Len(slice) : slice[i].node # node.id

DroppedCount(diagnostic) ==
    Cardinality({i \in 1..Len(dropped) : dropped[i].Diagnostic = diagnostic})
DeferredIn(c, diagnostic) ==
    Cardinality({j \in 1..Len(c.deferredImproperDurationDiagnostics) :
                    c.deferredImproperDurationDiagnostics[j] = diagnostic})
RECURSIVE DeferredInAll(_, _)
DeferredInAll(contexts, diagnostic) ==
    IF contexts = <<>> THEN 0
    ELSE DeferredIn(Head(contexts), diagnostic) + DeferredInAll(Tail(contexts), diagnostic)
PendingCount(diagnostic) ==
    DeferredIn(sentinel, diagnostic) + DeferredInAll(slice, diagnostic)

(***************************************************************************)
(* C6.  As claimed: in strict mode, a conversion call with a bare integer  *)
(* as argument that stands alone (no ancestor is a binary or parenthesized *)
(* expression) has produced exactly one conversion diagnostic, at the      *)
(* argument, when the traversal has ended.                                 *)
(***************************************************************************)
StandsAlone(c) == \A a \in Ancestors(c) : a.kind \notin {"BinaryExpr", "ParenExpr"}

C6_Original ==
    (fForbidImproperConversions /\ status = "done") =>
        \A c \in BareConversions :
            StandsAlone(c) => Occurrences(ConversionDiagnostic(c)) = 1

(***************************************************************************)
(* C6, amended.  The same for a conversion call whose own type is the      *)
(* duration type.  (A call recognized by its name only, such as            *)
(* model.Duration(10), is no improper duration: its diagnostic is dropped  *)
(* by an enclosing node that resolves as a proper duration.)               *)
(***************************************************************************)
C6_StandaloneConversionFlaggedOnce ==
    (fForbidImproperConversions /\ status = "done") =>
        \A c \in BareConversions :
            (c.typ = Duration /\ StandsAlone(c))
                => Occurrences(ConversionDiagnostic(c)) = 1

\* useTestStruct-like nesting: the conversion is a field initializer
C6_Witness ==
    /\ fForbidImproperConversions /\ status = "done"
    /\ \E c \in BareConversions :
          /\ c.typ = Duration /\ StandsAlone(c)
          /\ \E p \in Ancestors(c) : p.kind = "KeyValueExpr"
          /\ reported = <<ConversionDiagnostic(c)>>

(***************************************************************************)
(* C7.  In strict mode the diagnostic of a bare-integer conversion is      *)
(* never reported when the conversion is a direct operand of a             *)
(* multiplication that has a proper duration operand, or reaches such a    *)
(* multiplication upward through directly nested multiplications all of    *)
(* whose operands are improper.                                            *)
(***************************************************************************)
RECURSIVE Redeemed(_)
Redeemed(node) ==
    \E p \in Nodes(file) :
        /\ IsParent(p, node) /\ Multiplication(p) /\ p.typ = Duration
        /\ \/ \E k \in Children(p) : ProperTree(k)
           \/ (\A k \in Children(p) : ImproperTree(k)) /\ Redeemed(p)

C7_RedeemedConversionNeverReported ==
    fForbidImproperConversions =>
        \A c \in BareConversions :
            (c.typ = Duration /\ Redeemed(c)) => ~Flagged(Argument(c).pos, MsgConversion)

\* conversion(a) * conversion(b) * properUnit
C7_Witness ==
    /\ fForbidImproperConversions /\ status = "done"
    /\ \E c \in BareConversions :
          /\ c.typ = Duration /\ Redeemed(c)
          /\ \E p \in Nodes(file) :
                IsParent(p, c) /\ \A k \in Children(p) : k \in BareConversions
    /\ reported = <<>>
    /\ Len(dropped) = 2

(***************************************************************************)
(* C8.  In strict mode, for conversion(bareInteger) + P and                *)
(* P + conversion(bareInteger) (also with -), P a proper duration, the     *)
(* conversion diagnostic is reported when the sum is exited: it has been   *)
(* reported exactly once in every state after that, never before, also     *)
(* when the sum is an operand of an outer multiplication with a proper     *)
(* operand.                                                                *)
(***************************************************************************)
ImproperSums ==
    {sc \in Nodes(file) \X BareConversions :
        /\ sc[1].kind = "BinaryExpr" /\ sc[1].op \in {"+", "-"}
        /\ sc[2].typ = Duration
        /\ \/ sc[2] = X(sc[1]) /\ ProperTree(Y(sc[1]))
           \/ sc[2] = Y(sc[1]) /\ ProperTree(X(sc[1]))}

C8_SumFinalizesConversion ==
    fForbidImproperConversions =>
        \A sc \in ImproperSums :
            Occurrences(ConversionDiagnostic(sc[2])) = (IF Exited(sc[1]) THEN 1 ELSE 0)

\* (conversion(10) + time.Second) * time.Second
C8_Witness ==
    /\ fForbidImproperConversions /\ status = "done"
    /\ \E sc \in ImproperSums :
          /\ \E m \in Ancestors(sc[1]) :
                Multiplication(m) /\ \E k \in Children(m) : ProperValue(k)
          /\ reported = <<ConversionDiagnostic(sc[2])>>

(***************************************************************************)
(* C9.  In non-strict mode, for every recognized conversion call: the      *)
(* traversal enters no node strictly inside the call, no diagnostic of any *)
(* kind is reported at a position inside its parentheses, and the call is  *)
(* not flagged where it is itself the value of an assignment-style check   *)
(* or an argument.                                                         *)
(***************************************************************************)
C9_NonStrictConversionOpaque ==
    ~fForbidImproperConversions =>
        \A c \in Conversions :
            /\ \A k \in Nodes(c) \ {c} : ~Entered(k)
            /\ \A i \in 1..Len(reported) :
                  ~(reported[i].Pos > Fun(c).end /\ reported[i].Pos < c.end)
            /\ \A i \in 1..Len(reported) : reported[i].Message # MsgConversion
            /\ \A a \in AssignmentChecks :
                  a.value = c => ~Flagged(c.pos, MsgAssignment)
            /\ \A a \in ArgumentChecks :
                  a.value = c => ~Flagged(c.pos, MsgArgument)

\* d.Truncate(time.Duration(intTypedConst)), and a = time.Duration(untypedConst)
C9_Witness ==
    /\ ~fForbidImproperConversions /\ status = "done"
    /\ \E c \in Conversions :
          /\ Entered(c)
          /\ usesIntOrUntypedConstants(Argument(c))
          /\ \E a \in AssignmentChecks : a.value = c /\ a.target.typ = Duration
    /\ reported = <<>>

(***************************************************************************)
(* C10.  In strict mode every diagnostic deferred at a conversion call is, *)
(* at every moment after its creation, in exactly one place: pending in    *)
(* one context, dropped at an ancestor that resolved as a proper duration, *)
(* or reported once.  When run has returned none is pending: each was      *)
(* dropped or reported exactly once, never both and never twice.           *)
(***************************************************************************)
C10_DeferredDroppedOrReportedOnce ==
    fForbidImproperConversions =>
        \A c \in BareConversions :
            LET d == ConversionDiagnostic(c)
            IN  /\ Occurrences(d) + DroppedCount(d) + PendingCount(d)
                      = (IF Completed(c) THEN 1 ELSE 0)
                /\ \A i \in 1..Len(dropped) :
                      dropped[i].Diagnostic = d
                          => \E a \in Ancestors(c) : a.id = dropped[i].Node /\ ProperTree(a)
                /\ status = "done" => PendingCount(d) = 0

\* conversion(10) * time.Second + conversion(10): one dropped, one reported
C10_Witness ==
    /\ fForbidImproperConversions /\ status = "done"
    /\ Cardinality(BareConversions) = 2
    /\ Len(dropped) = 1 /\ Len(reported) = 1
    /\ reported[1].Message = MsgConversion
    /\ reported[1] # dropped[1].Diagnostic

(***************************************************************************)
(* C11.  In strict mode a bare-integer conversion stays flagged when it is *)
(* multiplied by a unit-less operand only (a non-zero literal or an        *)
(* untyped constant, duration-typed by coercion), as in 5 * conversion(n): *)
(* when run has returned, the conversion diagnostic is reported once.      *)
(***************************************************************************)
OnlyUnitlessFactor(c) ==
    /\ \E m \in Nodes(file) :
          /\ IsParent(m, c) /\ Multiplication(m)
          /\ \A k \in Children(m) \ {c} : UnitlessValue(k)
    /\ \A a \in Ancestors(c) : a.kind \in {"BinaryExpr", "ParenExpr"} => IsParent(a, c)

C11_UnitlessFactorDoesNotRedeem ==
    (fForbidImproperConversions /\ status = "done") =>
        \A c \in BareConversions :
            (c.typ = Duration /\ OnlyUnitlessFactor(c))
                => Occurrences(ConversionDiagnostic(c)) = 1

(***************************************************************************)
(* C12.  An identifier of a declaration with an explicit declared type is  *)
(* never classified unit-less: wherever the classifier is applied to a     *)
(* reference to it (the value of an assignment-style check with a duration *)
(* target, a duration argument, the argument of a conversion in strict     *)
(* mode), the classifier returns false.                                    *)
(***************************************************************************)
ExplicitlyTyped(e) == e.kind = "Ident" /\ e.Decl.isValueSpec /\ e.Decl.Type # NilType

\* The expressions the entry-point checks have handed to the classifier.
Classified ==
    {c.value : c \in {d \in AssignmentChecks : d.target.typ = Duration /\ Entered(d.at)}}
    \cup {c.value : c \in {d \in ArgumentChecks : d.value.typ = Duration /\ Entered(d.at)}}
    \cup {Argument(c) : c \in {d \in Conversions :
                                fForbidImproperConversions /\ Entered(d)}}

C12_ExplicitlyTypedNeverUnitless ==
    \A e \in Classified :
        ExplicitlyTyped(e)
            => ~usesIntOrUntypedConstants(e) /\ ~usesIntOrUntypedConstantsPanics(e)

(***************************************************************************)
(* C13.  In a multi-target assignment with as many values as targets,      *)
(* every pair is checked on its own: once the callback has returned,       *)
(* value i is flagged iff target i is duration-typed and value i is        *)
(* unit-less, whatever the other pairs are.                                *)
(***************************************************************************)
MultiAssignments ==
    {v \in Nodes(file) :
        v.kind = "AssignStmt" /\ Len(Lhs(v)) >= 2 /\ Len(Rhs(v)) = Len(Lhs(v))}

C13_EveryPairChecked ==
    \A v \in MultiAssignments :
        Completed(v) =>
            \A i \in 1..Len(Lhs(v)) :
                (UnitlessValue(Rhs(v)[i]) \/ ProperValue(Rhs(v)[i]))
                    => (Flagged(Rhs(v)[i].pos, MsgAssignment)
                            <=> (Lhs(v)[i].typ = Duration /\ UnitlessValue(Rhs(v)[i])))

\* a, b = time.Second, 10 : only the second value is flagged
C13_Witness ==
    /\ status = "done"
    /\ \E v \in MultiAssignments :
          /\ \A i \in 1..2 : Lhs(v)[i].typ = Duration
          /\ ProperValue(Rhs(v)[1]) /\ UnitlessValue(Rhs(v)[2])
          /\ reported = <<Diagnostic(Rhs(v)[2].pos, MsgAssignment)>>

C15_ReportedInPositionOrder ==
    \A i \in 1..Len(reported) : \A j \in 1..Len(reported) :
        i < j => reported[i].Pos <= reported[j].Pos

(***************************************************************************)
(* C16.  In both modes the context stack mirrors the path from the root to *)
(* the node being visited: its first context is the file's, each further   *)
(* context is that of a child of the node below it, and the stack is empty *)
(* when the traversal of the file has ended.                               *)
(***************************************************************************)
TraversalEnded == status = "done" \/ (status = "running" /\ agenda = <<>>)

C16_StackMirrorsPath ==
    /\ slice # <<>> => slice[1].node = file.id
    /\ \A i \in 1..(Len(slice) - 1) :
          \E p \in Nodes(file) : \E k \in Children(p) :
              p.id = slice[i].node /\ k.id = slice[i + 1].node
    /\ TraversalEnded => slice = <<>>

(***************************************************************************)
(* Finish on its own: the deferred call of run applied to a stack whose    *)
(* sentinel holds any list of deferred diagnostics, with no, one or two    *)
(* node contexts left on the stack, when run returns or a panic unwinds.   *)
(***************************************************************************)
MaxPending == 2   \* length of the sentinel's list of deferred diagnostics

PendingDiagnostics == {Diagnostic(p, MsgConversion) : p \in 1..MaxPending}

RECURSIVE PendingLists(_)
PendingLists(n) ==
    IF n = 0 THEN {<<>>}
    ELSE PendingLists(n - 1)
         \cup {Append(l, d) : l \in PendingLists(n - 1), d \in PendingDiagnostics}

LeftContexts ==
    {improperDurationContext(id, FALSE, isDur) : id \in {0, 1}, isDur \in BOOLEAN}

LeftSlices ==
    {<<>>} \cup {<<c>> : c \in LeftContexts}
           \cup {<<p, c>> : p \in LeftContexts, c \in LeftContexts}

InitFinish ==
    /\ file = Place(File(<<Discard(Conversion(DurLit(Lit10)))>>), 0, 0)
    /\ fForbidImproperConversions = TRUE
    /\ agenda = <<>>
    /\ slice \in LeftSlices
    /\ sentinel \in {[ZeroContext EXCEPT !.deferredImproperDurationDiagnostics = l] :
                        l \in PendingLists(MaxPending)}
    /\ reported = <<>>
    /\ dropped = <<>>
    /\ visited = <<>>
    /\ status \in {"running", "panicking"}
    /\ earlier = <<>>

NextFinish == Finish

SpecFinish == InitFinish /\ [][NextFinish]_vars

(***************************************************************************)
(* C17.  A step of Finish reports every diagnostic the sentinel holds,     *)
(* each once and in order, through pass.Report, leaves the sentinel's list *)
(* empty and does not abort, whatever the sentinel holds and also when no  *)
(* node context is left on the stack.                                      *)
(***************************************************************************)
FinishStep == status \in {"running", "panicking"} /\ status' \in {"done", "panic"}

PopStep == status = "running" /\ agenda # <<>> /\ Head(agenda).kind = "nil"
Popped == slice[Len(slice)]
ParentBefore == IF Len(slice) = 1 THEN sentinel ELSE slice[Len(slice) - 1]
ParentAfter == IF Len(slice) = 1 THEN sentinel' ELSE slice'[Len(slice) - 1]
Deferred(c) == c.deferredImproperDurationDiagnostics

(***************************************************************************)
(* C18.  When a context whose outcome is proper duration is popped, the    *)
(* diagnostics deferred on it are dropped: the pop reports nothing and     *)
(* appends nothing to the parent's deferred list, and a diagnostic dropped *)
(* so is never reported and never pending afterwards.                      *)
(***************************************************************************)
C18_ProperPopDrops ==
    /\ [][(PopStep /\ isProperDuration(Popped)) =>
            /\ reported' = reported
            /\ Deferred(ParentAfter) = Deferred(ParentBefore)]_vars
    /\ [](\A i \in 1..Len(dropped) :
            /\ Occurrences(dropped[i].Diagnostic) = 0
            /\ PendingCount(dropped[i].Diagnostic) = 0)

\* just after the pop of time.Duration(10) * time.Second
C18_Witness ==
    /\ status = "running" /\ slice # <<>>
    /\ Len(dropped) = 1 /\ reported = <<>>
    /\ \E m \in Nodes(file) :
          /\ Multiplication(m) /\ m.id = dropped[1].Node
          /\ \E p \in Nodes(file) : IsParent(p, m) /\ p.id = slice[Len(slice)].node
    /\ Deferred(slice[Len(slice)]) = <<>>
    /\ slice[Len(slice)].hasProperDurationChild

(***************************************************************************)
(* C19.  When a context whose outcome is improper and which is no          *)
(* multiplication is popped, every diagnostic deferred on it is reported   *)
(* by that pop, in deferral order, and none is forwarded to the parent.    *)
(***************************************************************************)
C19_ImproperNonMultiplicationPopReports ==
    [][(PopStep /\ isImproperDuration(Popped) /\ ~Popped.isMultiplicationExpr) =>
          /\ reported' = reported \o Deferred(Popped)
          /\ Deferred(ParentAfter) = Deferred(ParentBefore)]_vars

\* just after the pop of the sum in time.Duration(10) * time.Duration(10) + time.Second
C19_Witness ==
    /\ fForbidImproperConversions /\ status = "running" /\ slice # <<>>
    /\ \E s \in Nodes(file) : \E m \in Children(s) :
          /\ s.kind = "BinaryExpr" /\ s.op = "+" /\ Exited(s)
          /\ Multiplication(m) /\ X(m) \in BareConversions /\ Y(m) \in BareConversions
          /\ reported = <<ConversionDiagnostic(X(m)), ConversionDiagnostic(Y(m))>>
          /\ \E p \in Nodes(file) : IsParent(p, s) /\ p.id = slice[Len(slice)].node
    /\ Deferred(slice[Len(slice)]) = <<>>

(***************************************************************************)
(* C20.  When a multiplication context whose outcome is improper is        *)
(* popped, the pop reports nothing: its deferred diagnostics are appended, *)
(* in order, to the deferred list of the parent context, whose             *)
(* has-improper-child flag is set.                                         *)
(***************************************************************************)
C20_ImproperMultiplicationPopForwards ==
    [][(PopStep /\ isImproperDuration(Popped) /\ Popped.isMultiplicationExpr) =>
          /\ reported' = reported
          /\ Deferred(ParentAfter) = Deferred(ParentBefore) \o Deferred(Popped)
          /\ ParentAfter.hasImproperDurationChild]_vars

\* just after the pop of time.Duration(10) * time.Duration(10) inside a larger product
C20_Witness ==
    /\ fForbidImproperConversions /\ status = "running" /\ slice # <<>>
    /\ reported = <<>> /\ dropped = <<>>
    /\ \E p \in Nodes(file) : \E m \in Children(p) :
          /\ Multiplication(p) /\ p.id = slice[Len(slice)].node
          /\ Multiplication(m) /\ Exited(m)
          /\ X(m) \in BareConversions /\ Y(m) \in BareConversions
          /\ Deferred(slice[Len(slice)])
                = <<ConversionDiagnostic(X(m)), ConversionDiagnostic(Y(m))>>
    /\ slice[Len(slice)].hasImproperDurationChild

(***************************************************************************)
(* C21.  In strict mode, the callback entered with a recognized conversion *)
(* call creates a conversion diagnostic at the argument iff the argument   *)
(* is integer-typed or classified unit-less.  The step reports nothing; a  *)
(* created diagnostic is held once, by a context on the stack, and the     *)
(* call's context is marked as an improper duration node; otherwise no     *)
(* diagnostic is held and the context is not marked.                       *)
(***************************************************************************)
ConversionStep ==
    /\ fForbidImproperConversions
    /\ status = "running" /\ agenda # <<>>
    /\ Head(agenda).kind = "CallExpr" /\ isDurationConversion(Head(agenda))
    /\ status' = "running"

C21_ConversionDiagnosticDeferred ==
    [][ConversionStep =>
          LET c == Head(agenda)
              d == ConversionDiagnostic(c)
              bare == BareInteger(Argument(c))
          IN  /\ reported' = reported
              /\ Len(slice') = Len(slice) + 1
              /\ slice'[Len(slice')].node = c.id
              /\ slice'[Len(slice')].isImproperDurationNode = bare
              /\ DeferredInAll(slice', d) = (IF bare THEN 1 ELSE 0)
              /\ DeferredIn(sentinel', d) = 0]_vars

\* just after entering time.Duration(returnsInteger()) as a field initializer
C21_Witness ==
    /\ fForbidImproperConversions /\ status = "running" /\ Len(slice) >= 2
    /\ reported = <<>>
    /\ \E c \in Conversions :
          /\ slice[Len(slice)].node = c.id
          /\ visited[Len(visited)] = c.id
          /\ isIntegerType(Argument(c).typ) /\ ~usesIntOrUntypedConstants(Argument(c))
          /\ slice[Len(slice)].isImproperDurationNode
          /\ Deferred(slice[Len(slice) - 1]) = <<ConversionDiagnostic(c)>>
          /\ \E p \in Nodes(file) : IsParent(p, c) /\ p.kind = "KeyValueExpr"

(***************************************************************************)
(* C22.  For every context, in every state: a duration-typed context is    *)
(* exactly one of proper and improper, any other context is neither, and a *)
(* duration-typed context is improper iff it is itself a bare conversion,  *)
(* or has an improper child and is no multiplication, or has an improper   *)
(* child and no proper child.  In strict mode the outcome of a context     *)
(* about to be popped is the outcome of its node read off the tree.        *)
(***************************************************************************)
Contexts == {sentinel} \cup {slice[i] : i \in 1..Len(slice)}

C22_ProperImproperExclusiveAndTotal ==
    /\ \A c \in Contexts :
          /\ c.isDurationType => (isProperDuration(c) <=> ~isImproperDuration(c))
          /\ ~c.isDurationType => (~isProperDuration(c) /\ ~isImproperDuration(c))
          /\ c.isDurationType =>
                (isImproperDuration(c) <=>
                    \/ c.isImproperDurationNode
                    \/ c.hasImproperDurationChild /\ ~c.isMultiplicationExpr
                    \/ c.hasImproperDurationChild /\ ~c.hasProperDurationChild)
    /\ (fForbidImproperConversions /\ PopStep) =>
          \A e \in Nodes(file) :
              e.id = Popped.node =>
                  /\ isImproperDuration(Popped) <=> ImproperTree(e)
                  /\ isProperDuration(Popped) <=> ProperTree(e)

\* the stack while time.Duration(10) * time.Second is about to be popped:
\* a proper product over a statement's context that is neither
C22_Witness ==
    /\ fForbidImproperConversions /\ PopStep
    /\ Popped.isDurationType /\ Popped.isMultiplicationExpr
    /\ Popped.hasImproperDurationChild /\ Popped.hasProperDurationChild
    /\ isProperDuration(Popped) /\ Deferred(Popped) # <<>>
    /\ \E c \in Contexts : ~c.isDurationType /\ c.node >= 0

(***************************************************************************)
(* C23.  The check of an assignment with more targets than values, such as *)
(* a, err = time.ParseDuration(s), completes: the callback entered with    *)
(* the statement returns, the run does not abort, and no assignment        *)
(* diagnostic is reported except at a value paired with a target.          *)
(***************************************************************************)
UnbalancedAssignments ==
    {v \in Nodes(file) : v.kind = "AssignStmt" /\ Len(Lhs(v)) > Len(Rhs(v))}

C23_UnbalancedAssignmentCompletes ==
    \A v \in UnbalancedAssignments :
        Entered(v) =>
            /\ ~Panicked
            /\ \A i \in 1..Len(reported) :
                  reported[i].Message = MsgAssignment
                      => \E j \in 1..Len(Rhs(v)) : reported[i].Pos = Rhs(v)[j].pos

(***************************************************************************)
(* C24.  Parentheses are transparent: in strict mode a parenthesized       *)
(* bare-integer conversion multiplied by a proper duration,                *)
(* (conversion(n)) * properUnit, is not flagged, exactly like              *)
(* conversion(n) * properUnit (C7).                                        *)
(***************************************************************************)
ParenthesizedRedeemed(c) ==
    \E p \in Nodes(file) : \E m \in Nodes(file) :
        /\ p.kind = "ParenExpr" /\ IsParent(p, c)
        /\ Multiplication(m) /\ IsParent(m, p)
        /\ \E k \in Children(m) : ProperValue(k)

C24_ParenthesesTransparent ==
    fForbidImproperConversions =>
        \A c \in BareConversions :
            (c.typ = Duration /\ ParenthesizedRedeemed(c))
                => ~Flagged(Argument(c).pos, MsgConversion)

(***************************************************************************)
(* C25.  Strict mode only adds diagnostics: when a run with the flag off   *)
(* is followed by a run over the same file with the flag on, every         *)
(* diagnostic (position and message) the first run reported has been       *)
(* reported by the second when it has ended.                               *)
(***************************************************************************)
C25_StrictOnlyAdds ==
    (/\ earlier # <<>>
     /\ ~earlier[1].flag /\ fForbidImproperConversions
     /\ status \in {"done", "panic"}) =>
        \A i \in 1..Len(earlier[1].reported) :
            \E j \in 1..Len(reported) : reported[j] = earlier[1].reported[i]

=============================================================================
